---- MODULE Spec2Model ----
(***************************************************************************)
(* A model of package minhash (src/minhash.go): the Minhash engine, its    *)
(* signature slice, the caller supplied two-output hash function, and the  *)
(* slices a caller of the package holds.                                   *)
(*                                                                         *)
(* Slices are references: mem maps an array to its contents and a slice    *)
(* is the name of the array it points at, so that aliasing (two slices     *)
(* over one array) and copying (two arrays with equal contents) differ.    *)
(* uint64 is scaled to WordBits bits; all arithmetic wraps modulo          *)
(* 2^WordBits exactly as uint64 arithmetic wraps modulo 2^64.              *)
(***************************************************************************)
EXTENDS Integers, Sequences, FiniteSets, TLC

\* ------------------------------------------------------------- bounds
\* Width of the machine word standing for uint64.
WordBits == 3
\* Largest signature length a constructor is called with.
MaxSize == 2
\* Longest batch handed to PushAll / PushStrings.
MaxBatch == 2
\* Longest recorded history of pushes of one engine.
MaxHist == 2

\* ------------------------------------------------------------- words
Modulus == 2^WordBits
Word == 0..(Modulus - 1)

\* uint64 addition, multiplication and bitwise complement.
AddU(a, b) == (a + b) % Modulus
MulU(a, b) == (a * b) % Modulus
NotU(a) == (Modulus - 1) - a

\* ------------------------------------------------------------- names
Engines == {"m1", "m2"}
Nil == "nil"
CallerArray == "c"
ArrayIds == Engines \cup {CallerArray}
HashFuncs == {"hA", "hB"}

\* []byte values pushed: the empty element and two one-byte elements.
Elements == {<< >>, <<0>>, <<1>>}
\* Go strings are immutable byte sequences.
Strings == Elements

RECURSIVE SeqsUpTo(_, _)
SeqsUpTo(S, n) ==
    IF n = 0 THEN {<< >>}
    ELSE LET shorter == SeqsUpTo(S, n - 1)
         IN  shorter \cup {Append(q, x) : q \in {r \in shorter : Len(r) = n - 1}, x \in S}

Batches == SeqsUpTo(Elements, MaxBatch)
StringBatches == SeqsUpTo(Strings, MaxBatch)

\* ------------------------------------------------------------- hashing
\* A digest of the bytes of an element, the common input of the two
\* stand-ins for caller supplied hash functions.
RECURSIVE Digest(_)
Digest(b) == IF b = << >> THEN 0 ELSE (b[1] + 1) + 3 * Digest(Tail(b))

\* HashFunc: []byte -> (uint64, uint64), deterministic.
HashOf(h, b) ==
    LET d == Digest(b)
    IN  IF h = "hA"
        THEN <<AddU(MulU(5, d), 3), AddU(MulU(3, d), 6)>>
        ELSE <<AddU(MulU(3, d), 2), AddU(MulU(7, d), 5)>>

\* ------------------------------------------------------------- state
VARIABLES
    mem,       \* array -> contents (a sequence of words)
    engines,   \* engine -> [live, sig (the array m.sig points at), hashFunc]
    s,         \* the caller's slice variable: Nil or the array it points at
    ret,       \* what the most recent call returned, NoRet if it returns nothing
    calls,     \* hashFunc invocations made by the most recent call of Push
    hist,      \* engine -> [kind, elems]: how its signature came about
    from,      \* engine -> the slice NewMinhashFromSigs was given (Nil: none)
    panicked   \* a run-time panic has ended the program

vars == <<mem, engines, s, ret, calls, hist, from, panicked>>

Live(m) == engines[m].live
Sig(m) == mem[engines[m].sig]
HashFuncOf(m) == engines[m].hashFunc

\* hist[m].kind is
\*   "none"    m is not constructed
\*   "fresh"   NewMinhash made m and only pushes have written its signature
\*             since: elems are all the elements pushed, in order
\*   "pushed"  as "fresh", after more than MaxHist pushes (not recorded)
\*   "merged"  Merge has written the signature
\*   "copied"  NewMinhashFromSigs made m
\*   "written" the calling code has written into the signature's array
History(kind, q) == [kind |-> kind, elems |-> q]
Mark(kind) == History(kind, << >>)

\* float64 values the package returns: exact quotients, NaN and +Inf.
Float(n, d) == [nan |-> FALSE, num |-> n, den |-> d]
NaN == [nan |-> TRUE, num |-> 0, den |-> 0]
Inf == [nan |-> FALSE, num |-> 1, den |-> 0]
\* float64(n) / float64(d) for non-negative integers n and d.
FloatDiv(n, d) ==
    IF d # 0 THEN Float(n, d)
    ELSE IF n = 0 THEN NaN ELSE Inf

NoRet == [m |-> Nil, other |-> Nil, val |-> Float(0, 1), err |-> Nil, cmps |-> 0]

Init ==
    /\ mem = [a \in ArrayIds |-> << >>]
    /\ engines = [m \in Engines |-> [live |-> FALSE, sig |-> m, hashFunc |-> "hA"]]
    /\ s = Nil
    /\ ret = NoRet
    /\ calls = 0
    /\ hist = [m \in Engines |-> Mark("none")]
    /\ from = [m \in Engines |-> Nil]
    /\ panicked = FALSE

\* ------------------------------------------------------------- NewMinhash
\* Mutant: make([]uint64, size) without the loop that sets the slots.
NewSigZeroed(size) == [i \in 1..size |-> 0]

\* make([]uint64, size) followed by sig[i] = ^uint64(0) for every i.
NewSig(size) == [i \in 1..size |-> NotU(0)]

NewMinhash(m, hashFunc, size) ==
    /\ ~panicked
    /\ ~Live(m)
    /\ mem' = [mem EXCEPT ![m] = NewSig(size)]
    /\ engines' = [engines EXCEPT ![m] = [live |-> TRUE, sig |-> m, hashFunc |-> hashFunc]]
    /\ hist' = [hist EXCEPT ![m] = Mark("fresh")]
    /\ ret' = NoRet
    /\ UNCHANGED <<s, calls, from, panicked>>

\* ------------------------------------------------------------- Push
\* Mutant: the slot index taken one-based.
NewHashValOneBased(v1, v2, i) == AddU(v1, MulU(i + 1, v2))

\* newHashVal := v1 + uint64(i)*v2, i the zero-based slot index.
NewHashVal(v1, v2, i) == AddU(v1, MulU(i, v2))

\* Mutant: the slot is stored without the minimum test.
MinTestAlwaysStores(newHashVal, hashVal) == newHashVal

\* Mutant: m.sig[i] += newHashVal in place of m.sig[i] = newHashVal.
MinTestAdds(newHashVal, hashVal) ==
    IF newHashVal < hashVal THEN AddU(hashVal, newHashVal) ELSE hashVal

\* if newHashVal < hashVal { m.sig[i] = newHashVal }
MinTest(newHashVal, hashVal) == IF newHashVal < hashVal THEN newHashVal ELSE hashVal

\* The signature after Push(b) on a signature sig under hash function h.
PushSig(sig, h, b) ==
    LET v == HashOf(h, b)
    IN  [k \in 1..Len(sig) |-> MinTest(NewHashVal(v[1], v[2], k - 1), sig[k])]

\* v1, v2 := m.hashFunc(b), once, before the loop over the slots.
PushHashCalls(sig) == 1

\* The history after the pushes of the elements of q.
Record(h, q) ==
    IF h.kind = "fresh"
    THEN IF Len(h.elems) + Len(q) <= MaxHist
         THEN History("fresh", h.elems \o q)
         ELSE Mark("pushed")
    ELSE h

Push(m, b) ==
    /\ ~panicked
    /\ Live(m)
    /\ mem' = [mem EXCEPT ![engines[m].sig] = PushSig(@, HashFuncOf(m), b)]
    /\ calls' = PushHashCalls(Sig(m))
    /\ hist' = [hist EXCEPT ![m] = Record(@, <<b>>)]
    /\ ret' = NoRet
    /\ UNCHANGED <<engines, s, from, panicked>>

\* ------------------------------------------------------------- PushAll, PushStrings
\* for _, b := range bb { m.Push(b) }
RECURSIVE PushAllSig(_, _, _)
PushAllSig(sig, h, bb) ==
    IF bb = << >> THEN sig
    ELSE PushAllSig(PushSig(sig, h, Head(bb)), h, Tail(bb))

\* []byte(r): a fresh byte slice holding the bytes of the string r.
ToBytes(r) == [k \in 1..Len(r) |-> r[k]]

PushAll(m, bb) ==
    /\ ~panicked
    /\ Live(m)
    /\ mem' = [mem EXCEPT ![engines[m].sig] = PushAllSig(@, HashFuncOf(m), bb)]
    /\ calls' = IF bb = << >> THEN calls ELSE PushHashCalls(Sig(m))
    /\ hist' = [hist EXCEPT ![m] = Record(@, bb)]
    /\ ret' = NoRet
    /\ UNCHANGED <<engines, s, from, panicked>>

PushStrings(m, ss) ==
    LET bb == [k \in 1..Len(ss) |-> ToBytes(ss[k])]
    IN  /\ ~panicked
        /\ Live(m)
        /\ mem' = [mem EXCEPT ![engines[m].sig] = PushAllSig(@, HashFuncOf(m), bb)]
        /\ calls' = IF bb = << >> THEN calls ELSE PushHashCalls(Sig(m))
        /\ hist' = [hist EXCEPT ![m] = Record(@, bb)]
        /\ ret' = NoRet
        /\ UNCHANGED <<engines, s, from, panicked>>

\* ------------------------------------------------------------- Merge
\* Mutant: v > m.sig[i] in place of v < m.sig[i].
MergeTestKeepsLarger(v, mine) == IF v > mine THEN v ELSE mine

\* if v < m.sig[i] { m.sig[i] = v }
MergeTest(v, mine) == IF v < mine THEN v ELSE mine

\* Mutant: the loop skips slot 0.
MergeSigSkipsFirst(mine, theirs) ==
    [k \in 1..Len(mine) |->
        IF k > 1 /\ k <= Len(theirs) THEN MergeTest(theirs[k], mine[k]) ELSE mine[k]]

\* The receiver's signature once the loop over other.sig has ended, normally
\* or by the index m.sig[i] leaving the receiver's signature.
MergeSig(mine, theirs) ==
    [k \in 1..Len(mine) |-> IF k <= Len(theirs) THEN MergeTest(theirs[k], mine[k]) ELSE mine[k]]

\* m.sig[i] with i >= len(m.sig) panics: index out of range.
MergePanics(mine, theirs) == Len(theirs) > Len(mine)

Merge(m, other) ==
    /\ ~panicked
    /\ Live(m) /\ Live(other)
    /\ mem' = [mem EXCEPT ![engines[m].sig] = MergeSig(@, Sig(other))]
    /\ panicked' = MergePanics(Sig(m), Sig(other))
    /\ hist' = [hist EXCEPT ![m] = Mark("merged")]
    /\ ret' = NoRet
    /\ UNCHANGED <<engines, s, calls, from>>

\* ------------------------------------------------------------- Signature
\* return m.sig: the slice itself, not a copy of it.
SignatureRef(m) == engines[m].sig

Signature(m) ==
    /\ ~panicked
    /\ Live(m)
    /\ s' = SignatureRef(m)
    /\ ret' = NoRet
    /\ UNCHANGED <<mem, engines, calls, hist, from, panicked>>

\* ------------------------------------------------------------- Similarity
ErrSigSizeMismatch == "signature sizes do not match"

\* Mutant: no check of the lengths; the slots both signatures have are compared.
SimilarityRetUnchecked(mine, theirs) ==
    LET n == IF Len(mine) < Len(theirs) THEN Len(mine) ELSE Len(theirs)
        intersect == Cardinality({i \in 1..n : mine[i] = theirs[i]})
    IN  [val |-> FloatDiv(intersect, Len(mine)), err |-> Nil, cmps |-> n]

\* What Similarity returns for two signatures, and the number of slot
\* comparisons (m.sig[i] == other.sig[i]) it made.
SimilarityRet(mine, theirs) ==
    IF Len(mine) # Len(theirs)
    THEN [val |-> Float(0, 1), err |-> ErrSigSizeMismatch, cmps |-> 0]
    ELSE LET intersect == Cardinality({i \in 1..Len(mine) : mine[i] = theirs[i]})
         IN  [val |-> FloatDiv(intersect, Len(mine)), err |-> Nil, cmps |-> Len(mine)]

Similarity(m, other) ==
    LET r == SimilarityRet(Sig(m), Sig(other))
    IN  /\ ~panicked
        /\ Live(m) /\ Live(other)
        /\ ret' = [m |-> m, other |-> other, val |-> r.val, err |-> r.err, cmps |-> r.cmps]
        /\ UNCHANGED <<mem, engines, s, calls, hist, from, panicked>>

\* ------------------------------------------------------------- NewMinhashFromSigs
\* The slice existingSig as a value: a nil slice has no elements.
Contents(ref) == IF ref = Nil THEN << >> ELSE mem[ref]

\* Mutant: sig: existingSig, the engine keeps the slice it was given.
FromSigsRefAliases(m, existingSig) == IF existingSig = Nil THEN m ELSE existingSig

\* sig := make([]uint64, len(existingSig)): the array the new engine owns.
FromSigsRef(m, existingSig) == m

\* copy(sig, existingSig)
CopySig(existing) == [i \in 1..Len(existing) |-> existing[i]]

NewMinhashFromSigs(m, hashFunc) ==
    LET ref == FromSigsRef(m, s)
    IN  /\ ~panicked
        /\ ~Live(m)
        /\ mem' = [mem EXCEPT ![ref] = CopySig(Contents(s))]
        /\ engines' = [engines EXCEPT ![m] = [live |-> TRUE, sig |-> ref, hashFunc |-> hashFunc]]
        /\ from' = [from EXCEPT ![m] = s]
        /\ hist' = [hist EXCEPT ![m] = Mark("copied")]
        /\ ret' = NoRet
        /\ UNCHANGED <<s, calls, panicked>>

\* ------------------------------------------------------------- the caller's slices
\* s = make([]uint64, n) in the calling code: a zeroed array of its own.
CallerMake(n) ==
    /\ ~panicked
    /\ \A m \in Engines : Live(m) => engines[m].sig # CallerArray
    /\ s' = CallerArray
    /\ mem' = [mem EXCEPT ![CallerArray] = [i \in 1..n |-> 0]]
    /\ ret' = NoRet
    /\ UNCHANGED <<engines, calls, hist, from, panicked>>

\* s[i] = v in the calling code (i zero-based), s being a slice it made or
\* the slice Signature() returned.
CallerWrite(i, v) ==
    /\ ~panicked
    /\ s # Nil
    /\ i + 1 \in 1..Len(mem[s])
    /\ mem' = [mem EXCEPT ![s][i + 1] = v]
    /\ hist' = [m \in Engines |->
                  IF Live(m) /\ engines[m].sig = s THEN Mark("written") ELSE hist[m]]
    /\ ret' = NoRet
    /\ UNCHANGED <<engines, s, calls, from, panicked>>

\* ------------------------------------------------------------- specifications
\* The operations that write signatures, one element at a time, called in
\* any order with any arguments on engines made by NewMinhash.
Next ==
    \/ \E m \in Engines, h \in HashFuncs, size \in 0..MaxSize : NewMinhash(m, h, size)
    \/ \E m \in Engines, b \in Elements : Push(m, b)
    \/ \E m, other \in Engines : Merge(m, other)

Spec == Init /\ [][Next]_vars

\* Ingestion: engine m1 is fed one element at a time and in batches, engine
\* m2 one element at a time.
NextBatch ==
    \/ \E m \in Engines, h \in HashFuncs, size \in 0..MaxSize : NewMinhash(m, h, size)
    \/ \E m \in Engines, b \in Elements : Push(m, b)
    \/ \E bb \in Batches : PushAll("m1", bb)
    \/ \E ss \in StringBatches : PushStrings("m1", ss)

SpecBatch == Init /\ [][NextBatch]_vars

\* The values the calling code stores into a slice it holds.
WriteVals == {0, NotU(0)}

\* Comparison: engines made by either constructor, from slices of any
\* length and contents, are pushed to and compared.
NextSim ==
    \/ \E m \in Engines, size \in 0..MaxSize : NewMinhash(m, "hA", size)
    \/ \E m \in Engines : NewMinhashFromSigs(m, "hA")
    \/ \E m \in Engines : Push(m, <<0>>)
    \/ \E m, other \in Engines : Similarity(m, other)
    \/ \E n \in 0..MaxSize : CallerMake(n)
    \/ \E i \in 0..(MaxSize - 1), v \in WriteVals : CallerWrite(i, v)

SpecSim == Init /\ [][NextSim]_vars

\* The package together with calling code that keeps slices of its own:
\* the slice it hands to NewMinhashFromSigs and the slice Signature() returns.
\* Engine m1 is made by NewMinhash, engine m2 by NewMinhashFromSigs.
NextCaller ==
    \/ \E size \in 0..MaxSize : NewMinhash("m1", "hA", size)
    \/ NewMinhashFromSigs("m2", "hA")
    \/ \E m \in Engines : Push(m, <<0>>)
    \/ \E m, other \in Engines : Merge(m, other)
    \/ \E m \in Engines : Signature(m)
    \/ \E n \in 0..MaxSize : CallerMake(n)
    \/ \E i \in 0..(MaxSize - 1), v \in WriteVals : CallerWrite(i, v)

SpecCaller == Init /\ [][NextCaller]_vars

\* ------------------------------------------------------------- properties
Min(a, b) == IF a < b THEN a ELSE b
MaxWord == 2^WordBits - 1
Range(q) == {q[k] : k \in 1..Len(q)}
Count(q, x) == Cardinality({k \in 1..Len(q) : q[k] = x})
\* q is a rearrangement of p: the same multiset of elements.
IsPerm(p, q) == Len(p) = Len(q) /\ \A x \in Elements : Count(p, x) = Count(q, x)
\* The signature of a fresh engine of that size onto which q has been pushed.
SigOfPushes(h, size, q) == PushAllSig(NewSig(size), h, q)
\* The i-th simulated hash value (i zero-based) of element b, in the integers.
Derived(h, b, i) == (HashOf(h, b)[1] + i * HashOf(h, b)[2]) % Modulus
Fresh(m) == hist[m].kind = "fresh"

\* C1: a step Push(b) on engine m leaves in every slot i (zero-based) the
\* minimum of the slot's old value and (v1 + i*v2) mod 2^WordBits, where
\* (v1, v2) = hashFunc(b); the signature keeps its length and the hash
\* function is invoked exactly once.
C1_PushStoresSlotMinimum ==
    [][\A m \in Engines, b \in Elements :
          Push(m, b) =>
             /\ calls' = 1
             /\ Len(Sig(m)') = Len(Sig(m))
             /\ \A i \in 0..(Len(Sig(m)) - 1) :
                   Sig(m)'[i + 1] = Min(Sig(m)[i + 1], Derived(HashFuncOf(m), b, i))
      ]_vars

\* A single element has been pushed onto a fresh engine, and a slot holds a
\* derived value whose sum v1 + i*v2 overflowed the word.
C1_Witness ==
    \E m \in Engines, b \in Elements :
        /\ hist[m] = History("fresh", <<b>>)
        /\ calls = 1
        /\ \E i \in 1..(Len(Sig(m)) - 1) :
              /\ HashOf(HashFuncOf(m), b)[1] + i * HashOf(HashFuncOf(m), b)[2] >= Modulus
              /\ Sig(m)[i + 1] = Derived(HashFuncOf(m), b, i)
              /\ Sig(m)[i + 1] < MaxWord

\* C2: a step a.Merge(b) on engines of equal signature length leaves in
\* every slot of a the minimum of the two pre-merge values, and leaves b's
\* signature as it was.
C2_MergeIsSlotwiseMinimum ==
    [][\A a, b \in Engines :
          (Merge(a, b) /\ Len(Sig(a)) = Len(Sig(b))) =>
             /\ Len(Sig(a)') = Len(Sig(a))
             /\ \A k \in 1..Len(Sig(a)) :
                   /\ Sig(a)'[k] = Min(Sig(a)[k], Sig(b)[k])
                   /\ Sig(a)'[k] <= Sig(a)[k]
             /\ Sig(b)' = Sig(b)
             /\ ~panicked'
      ]_vars

\* Engine a has been merged with another engine b of the same length: it is
\* nowhere above b, equal to it in one slot and strictly below it in another.
C2_Witness ==
    \E a, b \in Engines :
        /\ a # b
        /\ hist[a].kind = "merged" /\ Live(b)
        /\ Len(Sig(a)) = Len(Sig(b))
        /\ \A k \in 1..Len(Sig(a)) : Sig(a)[k] <= Sig(b)[k]
        /\ \E k \in 1..Len(Sig(a)) : Sig(a)[k] < Sig(b)[k]
        /\ \E k \in 1..Len(Sig(a)) : Sig(a)[k] = Sig(b)[k] /\ Sig(b)[k] < MaxWord
        /\ ~panicked

\* C7: when a and b were made by NewMinhash with the same hash function and
\* size and only pushed to (a the sequence A, b the sequence B), the
\* signature of a after a.Merge(b) is that of a fresh engine of that hash
\* function and size onto which A and then B have been pushed.
C7_MergeIsUnion ==
    [][\A a, b \in Engines :
          (/\ Merge(a, b)
           /\ Fresh(a) /\ Fresh(b)
           /\ HashFuncOf(a) = HashFuncOf(b)
           /\ Len(Sig(a)) = Len(Sig(b))) =>
             Sig(a)' = SigOfPushes(HashFuncOf(a), Len(Sig(a)), hist[a].elems \o hist[b].elems)
      ]_vars

\* Engine a has been merged with a fresh engine b holding the pushes B, and
\* holds the signature of some pushes A followed by B, which is neither the
\* signature of A nor that of B.
C7_Witness ==
    \E a, b \in Engines :
        /\ a # b
        /\ hist[a].kind = "merged" /\ Fresh(b) /\ hist[b].elems # << >>
        /\ HashFuncOf(a) = HashFuncOf(b)
        /\ Len(Sig(a)) = Len(Sig(b)) /\ Len(Sig(a)) >= 2
        /\ Sig(a) # Sig(b)
        /\ \E A \in SeqsUpTo(Elements, MaxHist) :
              /\ A # << >>
              /\ Sig(a) = SigOfPushes(HashFuncOf(a), Len(Sig(a)), A \o hist[b].elems)
              /\ Sig(a) # SigOfPushes(HashFuncOf(a), Len(Sig(a)), A)

C8_PushOrderIsIrrelevant ==
    \A a, b \in Engines :
        (/\ Fresh(a) /\ Fresh(b)
         /\ HashFuncOf(a) = HashFuncOf(b)
         /\ Len(Sig(a)) = Len(Sig(b))
         /\ IsPerm(hist[a].elems, hist[b].elems)) =>
            Sig(a) = Sig(b)

\* Two engines of one hash function and size have been pushed the same two
\* elements in opposite orders; each element holds the minimum of a slot.
C8_Witness ==
    \E x, y \in Elements :
        /\ hist["m1"] = History("fresh", <<x, y>>)
        /\ hist["m2"] = History("fresh", <<y, x>>)
        /\ HashFuncOf("m1") = HashFuncOf("m2")
        /\ Len(Sig("m1")) = Len(Sig("m2"))
        /\ Sig("m1") = Sig("m2")
        /\ \E i \in 0..(Len(Sig("m1")) - 1) :
              Derived(HashFuncOf("m1"), x, i) < Derived(HashFuncOf("m1"), y, i)
        /\ \E i \in 0..(Len(Sig("m1")) - 1) :
              Derived(HashFuncOf("m1"), y, i) < Derived(HashFuncOf("m1"), x, i)

\* ret holds what a call of Similarity returned.
Compared == ret.m # Nil
SameLength == Len(Sig(ret.m)) = Len(Sig(ret.other))
Matching == Cardinality({k \in 1..Len(Sig(ret.m)) : Sig(ret.m)[k] = Sig(ret.other)[k]})
\* The float64 v is a number of the closed interval [0.0, 1.0].
InUnitInterval(v) == ~v.nan /\ v.den > 0 /\ 0 <= v.num /\ v.num <= v.den

\* C3: a step Similarity on signatures of different lengths returns
\* ErrSigSizeMismatch and the estimate 0 without comparing a slot; on
\* signatures of equal length it returns no error; either way it leaves
\* every signature and engine as it was.
C3_SimilarityChecksLengths ==
    [][\A m, other \in Engines :
          Similarity(m, other) =>
             /\ Len(Sig(m)) # Len(Sig(other)) =>
                   /\ ret'.err = ErrSigSizeMismatch
                   /\ ~ret'.val.nan /\ ret'.val.num = 0 /\ ret'.val.den # 0
                   /\ ret'.cmps = 0
             /\ Len(Sig(m)) = Len(Sig(other)) => ret'.err = Nil
             /\ mem' = mem /\ engines' = engines
      ]_vars

\* Similarity has been called on two non-empty signatures of different
\* lengths and has returned the error.
C3_Witness ==
    /\ Compared
    /\ ret.err = ErrSigSizeMismatch
    /\ Len(Sig(ret.m)) > 0 /\ Len(Sig(ret.other)) > 0
    /\ Len(Sig(ret.m)) # Len(Sig(ret.other))

\* C4: whenever Similarity has been called on two engines of equal
\* signature length, however they were made, it has returned a value of
\* [0.0, 1.0]: the number of slots holding equal values divided by the
\* signature length.
C4_SimilarityInUnitInterval ==
    (Compared /\ SameLength) =>
        /\ InUnitInterval(ret.val)
        /\ ret.val.num * Len(Sig(ret.m)) = Matching * ret.val.den

\* C10: a step NewMinhash with size > 0 makes a signature of exactly size
\* slots, each 2^WordBits - 1; a step Similarity on two engines made by
\* NewMinhash with equal size > 0 and never pushed to returns 1.0 and no
\* error.
C10_NewMinhashStartsAtMaximum ==
    [][/\ \A m \in Engines, h \in HashFuncs, size \in 1..MaxSize :
             NewMinhash(m, h, size) =>
                /\ Len(Sig(m)') = size
                /\ \A k \in 1..size : Sig(m)'[k] = MaxWord
       /\ \A m, other \in Engines :
             (/\ Similarity(m, other)
              /\ hist[m] = Mark("fresh") /\ hist[other] = Mark("fresh")
              /\ Len(Sig(m)) = Len(Sig(other)) /\ Len(Sig(m)) > 0) =>
                /\ ret'.err = Nil
                /\ ~ret'.val.nan /\ ret'.val.den > 0 /\ ret'.val.num = ret'.val.den
      ]_vars

\* Similarity has been called on two distinct never-pushed engines of the
\* largest size and has returned 1.0.
C10_Witness ==
    /\ Compared
    /\ ret.m # ret.other
    /\ hist[ret.m] = Mark("fresh") /\ hist[ret.other] = Mark("fresh")
    /\ Len(Sig(ret.m)) = MaxSize /\ Len(Sig(ret.other)) = MaxSize
    /\ ret.err = Nil
    /\ ret.val = Float(MaxSize, MaxSize)

\* C5: a write of the calling code into a slice it holds, the slice
\* Signature() returned included, leaves the signature of every engine as
\* it was.
C5_CallerWritesNeverReachEngines ==
    [][\A i \in 0..(MaxSize - 1), v \in Word :
          CallerWrite(i, v) => \A m \in Engines : Live(m) => Sig(m)' = Sig(m)
      ]_vars

\* The engine m was made by NewMinhashFromSigs from a slice that still exists.
MadeFrom(m, a) == hist[m].kind # "none" /\ from[m] = a /\ a # Nil

\* C6: a step NewMinhashFromSigs makes an engine whose signature equals the
\* given slice element for element; afterwards no Push or Merge on that
\* engine changes the array of the given slice, and no write of the calling
\* code into that array changes the engine's signature.
C6_FromSigsOwnsACopy ==
    [][/\ \A m \in Engines, h \in HashFuncs :
             NewMinhashFromSigs(m, h) =>
                /\ Sig(m)' = Contents(s)
                /\ Contents(s)' = Contents(s)
       /\ \A m \in Engines, a \in ArrayIds :
             MadeFrom(m, a) =>
                /\ \/ mem'[a] = mem[a]
                   \/ /\ \A b \in Elements : ~Push(m, b)
                      /\ \A other \in Engines : ~Merge(m, other)
                /\ \/ Sig(m)' = Sig(m)
                   \/ s # a
                   \/ \A i \in 0..(MaxSize - 1), v \in Word : ~CallerWrite(i, v)
      ]_vars

\* An engine made from the calling code's slice and that slice, both
\* non-empty, have come to differ: one was written and the other kept.
C6_Witness ==
    \E m \in Engines :
        /\ MadeFrom(m, CallerArray)
        /\ Len(Sig(m)) > 0
        /\ Len(Sig(m)) = Len(mem[CallerArray])
        /\ Sig(m) # mem[CallerArray]

====
